---- MODULE Spec2Model ----
(***************************************************************************)
(* Model of src/index.js: the aggregate reducers over Product records and  *)
(* the cascading optimizer getProductOptimizedFor.                         *)
(*                                                                         *)
(* A Product is a record {ref, price, deliveryDate, rating, ratingCount}.  *)
(* `ref` is the JavaScript object identity of the record (the position at  *)
(* which getProductDetailsFromElements created it); the code never reads   *)
(* it, it only lets the properties tell apart two Products with equal      *)
(* fields.  A Date is modelled by its getTime() value, a rating by an      *)
(* integer number of rating steps.  The code only compares these values    *)
(* with each other and tests them for truthiness, so 0 and two distinct    *)
(* non-zero values cover every ordering of two candidates.                 *)
(***************************************************************************)
EXTENDS Integers, Sequences, FiniteSets

VARIABLES productDetails, optimizationTypes, optimizedProducts, i, pc, result

vars == <<productDetails, optimizationTypes, optimizedProducts, i, pc, result>>

\* ---------------------------------------------------------------- bounds
\* longest productDetails array
MaxProducts == 2

\* "Can pass in 1 to 3 cascading types"
MaxTypes == 3

\* ------------------------------------------------------- values of fields
\* JavaScript null in a numeric field.
NULL == -1

PRICE == "PRICE"
DELIVERY_DATE == "DELIVERY_DATE"
RATING == "RATING"
\* a tag that is no key of Optimizations
BOGUS == "BOGUS"

OptimizationTypes == {PRICE, DELIVERY_DATE, RATING}

Prices == {NULL, 0, 1, 2}
Dates == {NULL, 1, 2}
Ratings == {NULL, 0, 1, 2}
RatingCounts == {NULL, 1, 2}

\* JavaScript truthiness of a number-or-null field (NaN is not in the domains)
Truthy(v) == v # NULL /\ v # 0

\* JavaScript truthiness of a Date-or-null field: every Date object is truthy
TruthyDate(d) == d # NULL

\* --------------------------------------------------------------- helpers
RECURSIVE MapField(_, _)
\* Array.prototype.map(p => p.<field>)
MapField(products, field) ==
  IF products = <<>> THEN <<>>
  ELSE <<Head(products)[field]>> \o MapField(Tail(products), field)

HasTruthyPrice(p) == Truthy(p.price)
\* filter(p => p.rating !== null): a zero rating is kept
HasRatingNotNull(p) == p.rating # NULL

HasTruthyRating(p) == Truthy(p.rating)
HasDeliveryDate(p) == TruthyDate(p.deliveryDate)

\* ------------------------------------------------------ delivery date
RECURSIVE ReduceEarliest(_, _)
ReduceEarliest(earliestDate, dates) ==
  IF dates = <<>> THEN earliestDate
  ELSE ReduceEarliest(IF earliestDate > Head(dates) THEN Head(dates) ELSE earliestDate,
                      Tail(dates))

getEarliestDeliveryDateOfProducts(products) ==
  LET deliveryDates == MapField(SelectSeq(products, HasDeliveryDate), "deliveryDate")
  IN IF Len(deliveryDates) = 0 THEN NULL
     ELSE ReduceEarliest(deliveryDates[1], deliveryDates)

getFastestDeliveredProducts(products) ==
  LET earliestDate == getEarliestDeliveryDateOfProducts(products)
      AtEarliest(p) == p.deliveryDate = earliestDate
  IN IF ~TruthyDate(earliestDate) THEN <<>>
     ELSE SelectSeq(SelectSeq(products, HasDeliveryDate), AtEarliest)

\* ------------------------------------------------------------- price
RECURSIVE ReduceLowest(_, _)
ReduceLowest(lowestPrice, prices) ==
  IF prices = <<>> THEN lowestPrice
  ELSE ReduceLowest(IF lowestPrice > Head(prices) THEN Head(prices) ELSE lowestPrice,
                    Tail(prices))

getLowestPriceOfProducts(products) ==
  LET prices == MapField(SelectSeq(products, HasTruthyPrice), "price")
  IN IF Len(prices) = 0 THEN NULL
     ELSE ReduceLowest(prices[1], prices)

getProductsOfLowestPrice(products) ==
  LET lowestPrice == getLowestPriceOfProducts(products)
      AtLowest(p) == Truthy(p.price) /\ p.price = lowestPrice
  IN SelectSeq(products, AtLowest)

\* ------------------------------------------------------------ rating
RECURSIVE ReduceHighest(_, _)
ReduceHighest(highestRating, ratings) ==
  IF ratings = <<>> THEN highestRating
  ELSE ReduceHighest(IF highestRating < Head(ratings) THEN Head(ratings) ELSE highestRating,
                     Tail(ratings))

getHighestRatingOfProducts(products) ==
  LET ratings == MapField(SelectSeq(products, HasTruthyRating), "rating")
  IN IF Len(ratings) = 0 THEN NULL
     ELSE ReduceHighest(ratings[1], ratings)

getProductsOfHighestRating(products) ==
  LET highestRating == getHighestRatingOfProducts(products)
      AtHighest(p) == Truthy(p.rating) /\ p.rating = highestRating
  IN IF ~Truthy(highestRating) THEN <<>>
     ELSE SelectSeq(products, AtHighest)

\* ------------------------------------------------------- optimizer
\* Object.keys(Optimizations).includes(type)
KeysInclude(type) == type \in OptimizationTypes

\* Optimizations[type](products); only called for a key of Optimizations
Optimizations(type, products) ==
  CASE type = PRICE -> getProductsOfLowestPrice(products)
    [] type = DELIVERY_DATE -> getFastestDeliveredProducts(products)
    [] type = RATING -> getProductsOfHighestRating(products)

\* NarrowBy without the `continue` on an empty narrowing
NarrowByNoSkip(type, products) == Optimizations(type, products)

\* the loop body after the key test: keep the candidates when the
\* narrowing is empty, replace them otherwise
NarrowBy(type, products) ==
  LET tempOptimizedProducts == Optimizations(type, products)
  IN IF Len(tempOptimizedProducts) = 0 THEN products ELSE tempOptimizedProducts

\* the block after the loop left out
TieBreakSkipped(products) == products

\* the block after the loop without its test of tempOptimizedProducts.length
TieBreakNoGuard(products) ==
  IF Len(products) > 1 THEN getProductsOfHighestRating(products) ELSE products

\* the block after the loop
TieBreak(products) ==
  IF Len(products) > 1
  THEN LET tempOptimizedProducts == getProductsOfHighestRating(products)
       IN IF Len(tempOptimizedProducts) # 0 THEN tempOptimizedProducts ELSE products
  ELSE products

\* values a call can return
ReturnNull == [tag |-> "null"]
ReturnUndefined == [tag |-> "undefined"]
ReturnProduct(p) == [tag |-> "product", product |-> p]
NotReturned == [tag |-> "running"]

\* return optimizedProducts[1]
FirstOfOffByOne(products) ==
  IF Len(products) < 2 THEN ReturnUndefined ELSE ReturnProduct(products[2])

\* return optimizedProducts[optimizedProducts.length - 1]
LastOf(products) ==
  IF Len(products) = 0 THEN ReturnUndefined ELSE ReturnProduct(products[Len(products)])

\* return optimizedProducts[0]
FirstOf(products) ==
  IF Len(products) = 0 THEN ReturnUndefined ELSE ReturnProduct(products[1])

RECURSIVE Loop(_, _)
\* the for loop run to its end: the candidates it leaves, and whether it
\* returned early on a type that is no key of Optimizations
Loop(products, types) ==
  IF types = <<>> THEN [failed |-> FALSE, products |-> products]
  ELSE IF ~KeysInclude(Head(types)) THEN [failed |-> TRUE, products |-> products]
  ELSE Loop(NarrowBy(Head(types), products), Tail(types))

\* the whole call as a function of its arguments
getProductOptimizedFor(products, types) ==
  LET end == Loop(products, types)
  IN IF end.failed THEN ReturnNull ELSE FirstOf(TieBreak(end.products))

\* ------------------------------------------------------------ inputs
Product(ref, price, deliveryDate, rating, ratingCount) ==
  [ref |-> ref, price |-> price, deliveryDate |-> deliveryDate,
   rating |-> rating, ratingCount |-> ratingCount]

\* the field values of one page element, as the element getters return them
ElementValues(prices, dates, ratings, ratingCounts) ==
  [price : prices, deliveryDate : dates, rating : ratings, ratingCount : ratingCounts]

\* getProductDetailsFromElements: one Product per element, in page order
getProductDetailsFromElements(elements) ==
  [k \in 1..Len(elements) |->
     Product(k, elements[k].price, elements[k].deliveryDate,
             elements[k].rating, elements[k].ratingCount)]

\* pages of at most MaxProducts elements
Pages(values) == UNION {[1..n -> values] : n \in 0..MaxProducts}

\* no rating count was extracted: no reducer and no line of the optimizer
\* reads ratingCount
PageElements == ElementValues(Prices, Dates, Ratings, {NULL})

\* elements for the price and rating reducers: no delivery date
ReducerPageElements == ElementValues(Prices, {NULL}, Ratings, {NULL})

\* elements that tie on every criterion and differ in ratingCount
TiedPageElements == ElementValues({NULL, 1}, {NULL, 1}, {NULL, 0, 1}, RatingCounts)

\* a cascade names each type at most once
TypeArrays ==
  UNION {{s \in [1..n -> OptimizationTypes \cup {BOGUS}] :
            \A j, k \in 1..n : s[j] = s[k] => j = k} : n \in 0..MaxTypes}

\* the three cascades of main
MainCascades ==
  {<<DELIVERY_DATE, PRICE, RATING>>, <<PRICE, RATING, DELIVERY_DATE>>,
   <<RATING, PRICE, DELIVERY_DATE>>}

\* ------------------------------------------------------ state machine
\* the call getProductOptimizedFor(products, types) at its first line
Call(products, types) ==
  /\ productDetails = products
  /\ optimizationTypes = types
  /\ optimizedProducts = products
  /\ i = 0
  /\ pc = "loop"
  /\ result = NotReturned

Init ==
  \E elements \in Pages(PageElements), types \in TypeArrays :
    Call(getProductDetailsFromElements(elements), types)

InitReducers ==
  \E elements \in Pages(ReducerPageElements), types \in TypeArrays :
    Call(getProductDetailsFromElements(elements), types)

InitRatingCount ==
  \E elements \in Pages(TiedPageElements), types \in TypeArrays :
    Call(getProductDetailsFromElements(elements), types)

\* the type under the loop index (JavaScript indexes from 0)
CurrentType == optimizationTypes[i + 1]

\* `continue` in place of `return null`
LoopRejectContinues ==
  /\ pc = "loop"
  /\ i < Len(optimizationTypes)
  /\ ~KeysInclude(CurrentType)
  /\ i' = i + 1
  /\ UNCHANGED <<productDetails, optimizationTypes, optimizedProducts, pc, result>>

\* if (!Object.keys(Optimizations).includes(type)) return null
LoopReject ==
  /\ pc = "loop"
  /\ i < Len(optimizationTypes)
  /\ ~KeysInclude(CurrentType)
  /\ result' = ReturnNull
  /\ pc' = "done"
  /\ UNCHANGED <<productDetails, optimizationTypes, optimizedProducts, i>>

\* one iteration for a key of Optimizations
LoopStep ==
  /\ pc = "loop"
  /\ i < Len(optimizationTypes)
  /\ KeysInclude(CurrentType)
  /\ optimizedProducts' = NarrowBy(CurrentType, optimizedProducts)
  /\ i' = i + 1
  /\ UNCHANGED <<productDetails, optimizationTypes, pc, result>>

\* the loop has ended: the rating tie-break block, then return optimizedProducts[0]
AfterLoop ==
  /\ pc = "loop"
  /\ i >= Len(optimizationTypes)
  /\ optimizedProducts' = TieBreak(optimizedProducts)
  /\ result' = FirstOf(optimizedProducts')
  /\ pc' = "done"
  /\ UNCHANGED <<productDetails, optimizationTypes, i>>

Next == LoopReject \/ LoopStep \/ AfterLoop

Spec == Init /\ [][Next]_vars

SpecReducers == InitReducers /\ [][Next]_vars

SpecRatingCount == InitRatingCount /\ [][Next]_vars

\* ------------------------------------------- vocabulary of the properties
Elems(seq) == {seq[k] : k \in DOMAIN seq}

\* every criterion of the call is one of PRICE, DELIVERY_DATE, RATING
AllRecognized ==
  \A k \in DOMAIN optimizationTypes : optimizationTypes[k] \in {PRICE, DELIVERY_DATE, RATING}

RECURSIVE IsSubsequence(_, _)
\* s is t with some elements left out, the order kept
IsSubsequence(s, t) ==
  IF s = <<>> THEN TRUE
  ELSE IF t = <<>> THEN FALSE
  ELSE IF Head(s) = Head(t) THEN IsSubsequence(Tail(s), Tail(t))
  ELSE IsSubsequence(s, Tail(t))

\* position of a Product in an array that holds it
IndexIn(seq, x) == CHOOSE k \in DOMAIN seq : seq[k] = x

SetMin(S) == CHOOSE m \in S : \A x \in S : m <= x
SetMax(S) == CHOOSE m \in S : \A x \in S : x <= m

\* the values a collection offers for each criterion
PricesPresent(products) == {p.price : p \in Elems(products)} \ {NULL}
DatesPresent(products) == {p.deliveryDate : p \in Elems(products)} \ {NULL}
RatingsPresent(products) == {p.rating : p \in Elems(products)} \ {NULL, 0}

\* the listings at the lowest present price, in input order
ListingsAtLowestPrice(products) ==
  LET present == PricesPresent(products)
      lowest == SetMin(present)
      AtMin(p) == p.price = lowest
  IN IF present = {} THEN <<>> ELSE SelectSeq(products, AtMin)

\* the listings at the highest present non-zero rating, in input order
ListingsAtHighestRating(products) ==
  LET present == RatingsPresent(products)
      highest == SetMax(present)
      AtMax(p) == p.rating = highest
  IN IF present = {} THEN <<>> ELSE SelectSeq(products, AtMax)

\* the candidate set the final disambiguation must leave
AfterFinalStep(products) ==
  LET best == ListingsAtHighestRating(products)
  IN IF Len(products) > 1 /\ best # <<>> THEN best ELSE products

NoPrice == \A p \in Elems(productDetails) : p.price = NULL

\* ------------------------------------------------------------------ C1
\* C1: a recognized criterion whose narrowing of the current candidates is
\* empty leaves the candidates exactly as they were and the loop goes on to
\* the next criterion; and when no listing has a price the call with
\* [PRICE, RATING] returns what the call with [RATING] returns.
C1_EmptyNarrowingIsSkipped ==
  /\ [][(/\ pc = "loop"
         /\ i < Len(optimizationTypes)
         /\ AllRecognized
         /\ Optimizations(CurrentType, optimizedProducts) = <<>>)
        => (/\ optimizedProducts' = optimizedProducts
            /\ i' = i + 1
            /\ pc' = "loop")]_vars
  /\ []((pc = "done" /\ optimizationTypes = <<PRICE, RATING>> /\ NoPrice)
        => result = getProductOptimizedFor(productDetails, <<RATING>>))

\* two listings without price, the second rated higher: PRICE was skipped
\* and RATING chose the second
C1_Witness ==
  /\ pc = "done"
  /\ optimizationTypes = <<PRICE, RATING>>
  /\ Len(productDetails) = 2
  /\ NoPrice
  /\ productDetails[1].rating = 1
  /\ productDetails[2].rating = 2
  /\ result = ReturnProduct(productDetails[2])

\* ------------------------------------------------------------------ C2
\* C2: a call whose criteria hold an unrecognized tag at any position
\* returns null, whatever the other criteria are and whatever the earlier
\* criteria narrowed.
C2_UnrecognizedReturnsNull ==
  (pc = "done" /\ ~AllRecognized) => result = ReturnNull

\* the unrecognized tag comes last, after an earlier criterion narrowed
C2_Witness ==
  /\ pc = "done"
  /\ Len(optimizationTypes) >= 2
  /\ optimizationTypes[Len(optimizationTypes)] = BOGUS
  /\ Len(optimizedProducts) < Len(productDetails)
  /\ result = ReturnNull

\* ------------------------------------------------------------------ C3
\* C3 as stated: for a non-empty collection and criteria of which at least
\* one is recognized, the call returns a listing.
C3_AsStated ==
  (/\ pc = "done"
   /\ Len(productDetails) > 0
   /\ \E k \in DOMAIN optimizationTypes : optimizationTypes[k] \in {PRICE, DELIVERY_DATE, RATING})
  => result.tag = "product"

\* C3 amended: for a non-empty collection and criteria that are all
\* recognized (the empty list included), the call returns a listing.
C3_ListingWhenAllRecognized ==
  (pc = "done" /\ Len(productDetails) > 0 /\ AllRecognized) => result.tag = "product"

\* a call with criteria, on a collection where the first criterion has
\* nothing to go by, returns a listing
C3_Witness ==
  /\ pc = "done"
  /\ Len(productDetails) > 0
  /\ Len(optimizationTypes) > 0
  /\ AllRecognized
  /\ Optimizations(optimizationTypes[1], productDetails) = <<>>
  /\ result.tag = "product"

\* ------------------------------------------------------------------ C4
\* C4: when the loop has ended, more than one candidate is narrowed to the
\* candidates of the highest non-zero rating if there is one, and the
\* candidates are kept otherwise; this holds for every criteria list, and a
\* single candidate is left alone.
C4_FinalRatingTieBreak ==
  [][(pc = "loop" /\ i >= Len(optimizationTypes))
     => optimizedProducts' = AfterFinalStep(optimizedProducts)]_vars

\* the empty criteria list: only the final step narrowed
C4_Witness ==
  /\ pc = "done"
  /\ optimizationTypes = <<>>
  /\ Len(productDetails) = 2
  /\ Len(optimizedProducts) = 1

\* ------------------------------------------------------------------ C5
\* C5: among the candidates left tied, the returned product is decided by
\* ratingCount: no tied candidate has a higher ratingCount than the one
\* returned.
C5_RatingCountBreaksTies ==
  (pc = "done" /\ result.tag = "product")
  => \A c \in Elems(optimizedProducts) :
       (c.ratingCount # NULL /\ result.product.ratingCount # NULL)
       => c.ratingCount <= result.product.ratingCount

C7_LowestPriceOverPresentPrices ==
  (i = 1 /\ optimizationTypes[1] = PRICE)
  => /\ getLowestPriceOfProducts(productDetails) =
          (IF PricesPresent(productDetails) = {} THEN NULL
           ELSE SetMin(PricesPresent(productDetails)))
     /\ getProductsOfLowestPrice(productDetails) = ListingsAtLowestPrice(productDetails)

\* ------------------------------------------------------------------ C8
\* C8: getHighestRatingOfProducts is the maximum over the present non-zero
\* ratings (absent when there is none), getProductsOfHighestRating is the
\* listings at that maximum in input order, none of them with rating 0 or
\* without rating, and empty when every rating is absent or zero (stated of
\* the candidates, which are the whole collection when the call starts).
C8_HighestRatingOverNonZeroRatings ==
  LET present == RatingsPresent(optimizedProducts)
      atHighest == getProductsOfHighestRating(optimizedProducts)
  IN /\ getHighestRatingOfProducts(optimizedProducts) =
          (IF present = {} THEN NULL ELSE SetMax(present))
     /\ atHighest = ListingsAtHighestRating(optimizedProducts)
     /\ \A k \in DOMAIN atHighest : atHighest[k].rating # NULL /\ atHighest[k].rating # 0

\* RATING narrowed a zero-rated and a rated listing to the rated one
C8_Witness ==
  /\ i = 1
  /\ optimizationTypes[1] = RATING
  /\ Len(productDetails) = 2
  /\ productDetails[1].rating = 0
  /\ productDetails[2].rating = 1
  /\ optimizedProducts = <<productDetails[2]>>

\* ------------------------------------------------------------------ C9
\* C9: on a non-empty collection with recognized criteria the candidate set
\* is at every step non-empty and an order-preserving subsequence of the
\* input, and each step leaves a subsequence of the candidates before it.
C9_CandidatesShrinkAndStayNonEmpty ==
  /\ []((Len(productDetails) > 0 /\ AllRecognized)
        => (/\ Len(optimizedProducts) > 0
            /\ IsSubsequence(optimizedProducts, productDetails)))
  /\ [][(Len(productDetails) > 0 /\ AllRecognized)
        => IsSubsequence(optimizedProducts', optimizedProducts)]_vars

\* a cascade of main narrowed two listings to the second
C9_Witness ==
  /\ pc = "done"
  /\ optimizationTypes \in MainCascades
  /\ Len(productDetails) = 2
  /\ optimizedProducts = <<productDetails[2]>>

\* ----------------------------------------------------------------- C10
\* C10: with recognized criteria, when some listing has a value for the
\* first criterion the returned listing attains the extremum of that
\* criterion over the listings that have a value: lowest present price,
\* earliest present delivery date, highest present non-zero rating.
C10_FirstCriterionExtremum ==
  (pc = "done" /\ AllRecognized /\ Len(optimizationTypes) > 0)
  => CASE optimizationTypes[1] = PRICE ->
            PricesPresent(productDetails) # {}
            => /\ result.tag = "product"
               /\ result.product.price = SetMin(PricesPresent(productDetails))
       [] optimizationTypes[1] = DELIVERY_DATE ->
            DatesPresent(productDetails) # {}
            => /\ result.tag = "product"
               /\ result.product.deliveryDate = SetMin(DatesPresent(productDetails))
       [] optimizationTypes[1] = RATING ->
            RatingsPresent(productDetails) # {}
            => /\ result.tag = "product"
               /\ result.product.rating = SetMax(RatingsPresent(productDetails))

====
